---- MODULE Spec2Model ----
(***************************************************************************)
(* Model of src/app.py: the RAG chat service.                              *)
(*                                                                         *)
(*   - the five module globals (llm, retriever, format_docs, QA_PROMPT_BN, *)
(*     QA_PROMPT_EN) and load_rag_components, which assigns them in steps; *)
(*   - the __main__ block, which serves only when loading returned True;   *)
(*   - chat(), split at its two blocking external calls (retriever.invoke  *)
(*     and llm.invoke) so that concurrent requests interleave.             *)
(*                                                                         *)
(* Text is a sequence of one-character strings.  External libraries        *)
(* (langdetect, FAISS, Ollama, Flask's JSON parsing) are modelled by the   *)
(* outcomes they can hand back to app.py: a value or a raised exception.   *)
(***************************************************************************)
EXTENDS Integers, Sequences, FiniteSets, TLC

\* ------------------------------------------------------------- bounds
MaxCore   == 11   \* longest run of non-blank characters in a message
MaxPad    == 1    \* most blanks put on each side of a message
MaxChunks == 5    \* chunks in the largest on-disk index

\* -------------------------------------------------- program constants
TopK          == 4    \* search_kwargs={"k": 4}
LangThreshold == 10   \* len(user_message.strip()) > 10

\* Two workers of the transport's pool, each handling one request.
Requests == {1, 2}

VARIABLES
    llm, retriever, format_docs, QA_PROMPT_BN, QA_PROMPT_EN,  \* module globals
    faiss_index,   \* number of chunks in the on-disk index folder
    main_pc,       \* position of the __main__ block / load_rag_components
    req,           \* per-request locals of chat(), one record per worker
    \* extra/QAgenerator.py, the offline statistics tool (its own process)
    dataset,       \* the input file on disk: its kind and the acts it holds
    self_data,     \* ActStatistics.data: "None" or "loaded"
    self_acts,     \* ActStatistics.acts
    sys_stdout,    \* the stream sys.stdout names: "console" or "report_file"
    report_file,   \* the report file object f: "absent", "open" or "closed"
    menu_pc,       \* main(): "menu", "exited" or "crashed" (uncaught exception)
    last_call      \* the last method main() called, with what it found and did

globals == <<llm, retriever, format_docs, QA_PROMPT_BN, QA_PROMPT_EN>>
tool == <<dataset, self_data, self_acts, sys_stdout, report_file, menu_pc, last_call>>
vars == <<llm, retriever, format_docs, QA_PROMPT_BN, QA_PROMPT_EN,
          faiss_index, main_pc, req,
          dataset, self_data, self_acts, sys_stdout, report_file, menu_pc, last_call>>

\* ------------------------------------------------------------ values
\* A Python object held by a global: None, or an object with its payload.
None == [tag |-> "None", parts |-> <<>>]
Obj(t) == [tag |-> t, parts |-> <<>>]

\* bool(x) for the globals: None is falsy, every component object is truthy.
Truthy(x) == x.tag # "None"

Lit(s)  == [kind |-> "lit", v |-> s]
Slot(s) == [kind |-> "slot", v |-> s]

\* The two templates: fixed text around the {context} and {question} slots.
template_bn ==
    <<Lit("[SYSTEM-BN]"), Slot("context"), Lit("[FALLBACK-BN]"),
      Slot("question"), Lit("[ANSWER-BN]")>>
template_en ==
    <<Lit("[SYSTEM-EN]"), Slot("context"), Lit("[FALLBACK-EN]"),
      Slot("question"), Lit("[ANSWER-EN]")>>

PromptTemplate(parts) == [tag |-> "PromptTemplate", parts |-> parts]

\* ------------------------------------------------------- JSON values
JNull      == [type |-> "null", chars |-> <<>>, num |-> 0]
JStr(s)    == [type |-> "str",  chars |-> s,    num |-> 0]
JInt(n)    == [type |-> "int",  chars |-> <<>>, num |-> n]

Rep(c, n) == [i \in 1..n |-> c]

\* A message text: p blanks, n letters c, p blanks.
Text(p, n, c) == Rep(" ", p) \o Rep(c, n) \o Rep(" ", p)

CoreLens == {0} \cup (LangThreshold..MaxCore)
Letters  == {"a", "k"}

Strings == { Text(p, n, c) : p \in 0..MaxPad, n \in CoreLens, c \in Letters }

MessageValues == {JNull, JInt(0), JInt(5)} \cup { JStr(s) : s \in Strings }

\* Request bodies.  kind "nojson": not JSON at all (wrong content type or
\* unparsable); "null" and "array": JSON that is no object; "object": a JSON
\* object, with or without the "message" key.
Body(k, h, m) == [kind |-> k, has |-> h, message |-> m]
Bodies ==
    { Body(k, FALSE, JNull) : k \in {"nojson", "null", "array", "object"} }
    \cup { Body("object", TRUE, m) : m \in MessageValues }

\* ---------------------------------------------------- pure helpers
IsSpace(c) == c \in {" ", "\n"}

RECURSIVE LStrip(_)
LStrip(s) == IF s # <<>> /\ IsSpace(Head(s)) THEN LStrip(Tail(s)) ELSE s

RECURSIVE RStrip(_)
RStrip(s) ==
    IF s # <<>> /\ IsSpace(s[Len(s)]) THEN RStrip(SubSeq(s, 1, Len(s) - 1)) ELSE s

\* str.strip()
Strip(s) == RStrip(LStrip(s))

\* `not user_message`: None, "" and 0 are falsy.
Falsy(m) ==
    \/ m.type = "null"
    \/ m.type = "str" /\ m.chars = <<>>
    \/ m.type = "int" /\ m.num = 0

\* data.get('message') on a JSON object: the value, or None when absent.
GetMessage(body) == IF body.has THEN body.message ELSE JNull

\* The text str.format substitutes for a value: the string itself, or str(n).
StrOf(m) ==
    IF m.type = "str" THEN m.chars
    ELSE IF m.type = "int" THEN <<"#">>
    ELSE <<"N", "o", "n", "e">>

\* page_content of the chunk stored at position i of the index.
page_content(i) ==
    CASE i % 3 = 0 -> <<"c", "\n">>
      [] i % 3 = 1 -> <<"d">>
      [] OTHER     -> <<"e", "f">>

Sep == <<"\n", "\n">>

\* "\n\n".join(doc.page_content for doc in docs)
RECURSIVE format_docs_func_mut(_)
format_docs_func_mut(docs) ==
    IF docs = <<>> THEN <<>>
    ELSE page_content(Head(docs)) \o Sep \o format_docs_func_mut(Tail(docs))

RECURSIVE format_docs_func(_)
format_docs_func(docs) ==
    IF docs = <<>> THEN <<>>
    ELSE IF Len(docs) = 1 THEN page_content(docs[1])
    ELSE page_content(Head(docs)) \o Sep \o format_docs_func(Tail(docs))

Min(a, b) == IF a < b THEN a ELSE b

\* The similarity search behind retriever.invoke: the k nearest chunks of an
\* index of n chunks, nearest first.  The ranking is a fixed function of the
\* query text and the index (here a rotation by the query's length).
SimilaritySearch(n, k, q) ==
    [j \in 1..Min(k, n) |-> ((j - 1 + Len(q)) % n) + 1]

\* PromptTemplate.format(context=..., question=...)
RECURSIVE Format(_, _, _)
Format(parts, context, question) ==
    IF parts = <<>> THEN <<>>
    ELSE LET p == Head(parts)
             piece == IF p.kind = "lit" THEN <<p.v>>
                      ELSE IF p.v = "context" THEN context
                      ELSE question
         IN  piece \o Format(Tail(parts), context, question)

\* Line 154: whether detect() is called for a string message.
NeedsDetect_mut(s) == Len(s) > LangThreshold

NeedsDetect(s) == Len(Strip(s)) > LangThreshold

\* What langdetect.detect can do: return a language code or raise.
LangCodes      == {"bn", "en", "fr"}
DetectOutcomes == LangCodes \cup {"LangDetectException", "Exception"}

\* Lines 151-162: the value of detected_lang after the detection block, given
\* what the detection step did ("skipped" when detect() was not called).
DetectedLang(outcome) == IF outcome \in LangCodes THEN outcome ELSE "bn"

\* Lines 180-185: the template chosen for detected_lang.
ChoosePrompt_mut(lang) == IF lang \in {"bn", "fr"} THEN QA_PROMPT_BN ELSE QA_PROMPT_EN

ChoosePrompt(lang) == IF lang = "bn" THEN QA_PROMPT_BN ELSE QA_PROMPT_EN

\* Line 138: all([llm, retriever, format_docs, QA_PROMPT_BN, QA_PROMPT_EN])
AllLoaded_mut ==
    Truthy(llm) /\ Truthy(retriever) /\ Truthy(format_docs)

AllLoaded ==
    /\ Truthy(llm) /\ Truthy(retriever) /\ Truthy(format_docs)
    /\ Truthy(QA_PROMPT_BN) /\ Truthy(QA_PROMPT_EN)

\* ------------------------------------------------- chat's responses
\* jsonify(...) with its status; a response without one is 200.
Response(status, key, text) == [status |-> status, key |-> key, text |-> text]

NoResponse == Response(0, "", <<>>)

\* Line 139
NotLoadedResponse_mut ==
    Response(503, "error", <<"RAG components are not loaded. Check server logs.">>)

NotLoadedResponse ==
    Response(500, "error", <<"RAG components are not loaded. Check server logs.">>)

\* Line 146
NoMessageResponse == Response(400, "error", <<"No 'message' found in request">>)

\* Line 177
RetrievalFailedResponse ==
    Response(500, "error", <<"Failed to retrieve relevant context.">>)

\* Line 197: the text carries str(e) of the backend's exception.
LLMFailedResponse_mut(detail) ==
    Response(500, "error", <<"LLM failed to generate response: ">>)

LLMFailedResponse(detail) ==
    Response(500, "error", <<"LLM failed to generate response: ", detail>>)

\* Line 200
AnswerResponse(bot_response) == Response(200, "response", <<bot_response>>)

\* Lines 202-204: the catch-all turns any other exception into an error body.
CatchAllResponse_mut(e) == NoResponse

CatchAllResponse(e) == Response(500, "error", <<e>>)

\* What request.json / data.get raise for a body that is no JSON object:
\* Flask raises for a non-JSON body (415 or 400 by version) or hands back None,
\* on which .get raises AttributeError; a null or array body has no usable .get.
BodyExceptions(body) ==
    CASE body.kind = "nojson" -> {"UnsupportedMediaType", "BadRequest", "AttributeError"}
      [] body.kind = "null"   -> {"AttributeError"}
      [] body.kind = "array"  -> {"AttributeError"}
      [] OTHER                -> {}

\* What llm.invoke can do: raise, or return an object with or without .content.
LLMErrors   == {"timeout", "connection refused"}
LLMOutcomes ==
    { [kind |-> "raise", v |-> d] : d \in LLMErrors }
    \cup { [kind |-> "content", v |-> "answer"], [kind |-> "str", v |-> "repr"] }

\* ------------------------------------------------ per-request locals
Idle ==
    [pc |-> "idle", entry |-> "", after_retrieval_failure |-> FALSE,
     after_generation_failure |-> FALSE,
     body |-> Body("unread", FALSE, JNull), user_message |-> JNull,
     lang_step |-> "", detected_lang |-> "",
     detect_calls |-> 0, retriever_calls |-> 0, llm_calls |-> 0,
     retrieved_docs |-> <<>>, context_text |-> <<>>, formatted_prompt |-> <<>>,
     exc |-> "", exit |-> "", response |-> NoResponse]

Ended(r, where) == req[r].pc = "done" /\ req[r].exit = where

\* A request starts: what its worker sees of the process when chat() is entered.
Enter(r) ==
    [Idle EXCEPT !.entry = main_pc,
        !.after_retrieval_failure = \E o \in Requests : Ended(o, "retrieval"),
        !.after_generation_failure = \E o \in Requests : Ended(o, "generation")]

Return(rec, where, resp) ==
    [rec EXCEPT !.pc = "done", !.exit = where, !.response = resp]

\* ActStatistics.__init__ (lines 11-14) and the interpreter's stdout, for the
\* input file ds; main() is at its menu and has called nothing yet.
NoCall == [method |-> "", outcome |-> "", stdout_before |-> "console"]

ToolStart(ds) ==
    /\ dataset = ds
    /\ self_data = "None"
    /\ self_acts = <<>>
    /\ sys_stdout = "console"
    /\ report_file = "absent"
    /\ menu_pc = "menu"
    /\ last_call = NoCall

Init ==
    /\ llm = None /\ retriever = None /\ format_docs = None
    /\ QA_PROMPT_BN = None /\ QA_PROMPT_EN = None
    /\ faiss_index \in {0, 1, MaxChunks}
    /\ main_pc = "start"
    /\ req = [r \in Requests |-> Idle]
    /\ ToolStart([kind |-> "missing", acts |-> <<>>])

\* ---------------------------------------------- load_rag_components
\* Line 43: HuggingFaceEmbeddings(...) is outside any try; its exception ends
\* the process before anything is assigned.
LoadEmbeddingsRaises ==
    /\ main_pc = "start"
    /\ main_pc' = "crashed"
    /\ UNCHANGED <<globals, faiss_index, req, tool>>

\* Lines 50-62: the index does not load; load_rag_components returns False.
LoadIndexFails ==
    /\ main_pc = "start"
    /\ main_pc' = "failed"
    /\ UNCHANGED <<globals, faiss_index, req, tool>>

\* Lines 56-58 then 68-79: ChatOllama(...) itself raises; llm stays None.
LoadLLMConstructorFails ==
    /\ main_pc = "start"
    /\ retriever' = Obj("VectorStoreRetriever")
    /\ format_docs' = Obj("format_docs_func")
    /\ main_pc' = "failed"
    /\ UNCHANGED <<llm, QA_PROMPT_BN, QA_PROMPT_EN, faiss_index, req, tool>>

\* Lines 56-58, 70-79: llm is assigned, then llm.invoke("Hello") raises.
LoadProbeFails ==
    /\ main_pc = "start"
    /\ retriever' = Obj("VectorStoreRetriever")
    /\ format_docs' = Obj("format_docs_func")
    /\ llm' = Obj("ChatOllama")
    /\ main_pc' = "failed"
    /\ UNCHANGED <<QA_PROMPT_BN, QA_PROMPT_EN, faiss_index, req, tool>>

\* Lines 27-123 with no failure, then line 208-212: the server starts.
LoadSucceeds ==
    /\ main_pc = "start"
    /\ retriever' = Obj("VectorStoreRetriever")
    /\ format_docs' = Obj("format_docs_func")
    /\ llm' = Obj("ChatOllama")
    /\ QA_PROMPT_BN' = PromptTemplate(template_bn)
    /\ QA_PROMPT_EN' = PromptTemplate(template_en)
    /\ main_pc' = "ready"
    /\ UNCHANGED <<faiss_index, req, tool>>

\* chat() is reachable once load_rag_components has returned: served by
\* app.run after True, or called on the module's app after False.
Callable == main_pc \in {"ready", "failed"}

\* ------------------------------------------------------------- chat
\* Lines 137-139: the components are not all set; the body is never read.
ChatNotReady(r) ==
    /\ Callable /\ req[r].pc = "idle"
    /\ ~AllLoaded
    /\ req' = [req EXCEPT ![r] = Return(Enter(r), "not_ready", NotLoadedResponse)]
    /\ UNCHANGED <<globals, faiss_index, main_pc, tool>>

\* Lines 142-143 raise (no JSON object to call .get on); lines 202-204 answer.
ChatBadBody(r, body, e) ==
    /\ Callable /\ req[r].pc = "idle"
    /\ AllLoaded
    /\ e \in BodyExceptions(body)
    /\ req' = [req EXCEPT ![r] =
                  Return([Enter(r) EXCEPT !.body = body, !.exc = e], "catch_all",
                         CatchAllResponse(e))]
    /\ UNCHANGED <<globals, faiss_index, main_pc, tool>>

\* Lines 142-146: a JSON object whose message is absent or falsy.
ChatNoMessage(r, body) ==
    /\ Callable /\ req[r].pc = "idle"
    /\ AllLoaded
    /\ body.kind = "object"
    /\ Falsy(GetMessage(body))
    /\ req' = [req EXCEPT ![r] =
                  Return([Enter(r) EXCEPT !.body = body,
                                          !.user_message = GetMessage(body)],
                         "no_message", NoMessageResponse)]
    /\ UNCHANGED <<globals, faiss_index, main_pc, tool>>

\* What the detection block (lines 151-162) can do with message m: skip the
\* detector, get a code from it, or catch what it (or .strip() on a value that
\* is no string) raises.
LangSteps(m) ==
    IF m.type # "str" THEN {"Exception"}
    ELSE IF NeedsDetect(m.chars) THEN DetectOutcomes
    ELSE {"skipped"}

\* detect() runs only for a string that passed the length test.
DetectCalled(m) == m.type = "str" /\ NeedsDetect(m.chars)

\* Lines 142-162: a usable message; the language is decided and the request
\* goes on to retrieval.
ChatDetect(r, body, step) ==
    /\ Callable /\ req[r].pc = "idle"
    /\ AllLoaded
    /\ body.kind = "object"
    /\ ~Falsy(GetMessage(body))
    /\ step \in LangSteps(GetMessage(body))
    /\ req' = [req EXCEPT ![r] =
                  [Enter(r) EXCEPT
                      !.pc = "retrieve", !.body = body,
                      !.user_message = GetMessage(body),
                      !.lang_step = step,
                      !.detected_lang = DetectedLang(step),
                      !.detect_calls = IF DetectCalled(GetMessage(body)) THEN 1 ELSE 0]]
    /\ UNCHANGED <<globals, faiss_index, main_pc, tool>>

\* Lines 166-177: retriever.invoke raises.
ChatRetrieveFails_mut(r) ==
    /\ req[r].pc = "retrieve"
    /\ req' = [req EXCEPT ![r] =
                  Return([req[r] EXCEPT !.retriever_calls = @ + 1,
                                        !.exc = "RetrievalError"],
                         "retrieval", RetrievalFailedResponse)]
    /\ retriever' = None
    /\ UNCHANGED <<llm, format_docs, QA_PROMPT_BN, QA_PROMPT_EN, faiss_index, main_pc, tool>>

ChatRetrieveFails(r) ==
    /\ req[r].pc = "retrieve"
    /\ req' = [req EXCEPT ![r] =
                  Return([req[r] EXCEPT !.retriever_calls = @ + 1,
                                        !.exc = "RetrievalError"],
                         "retrieval", RetrievalFailedResponse)]
    /\ UNCHANGED <<globals, faiss_index, main_pc, tool>>

\* Lines 166-187: the chunks come back; context and prompt are built.
ChatRetrieveOk(r) ==
    /\ req[r].pc = "retrieve"
    /\ LET q       == StrOf(req[r].user_message)
           docs    == SimilaritySearch(faiss_index, TopK, q)
           context == format_docs_func(docs)
           prompt_template == ChoosePrompt(req[r].detected_lang)
       IN  req' = [req EXCEPT ![r] =
                      [@ EXCEPT !.pc = "generate",
                                !.retriever_calls = @ + 1,
                                !.retrieved_docs = docs,
                                !.context_text = context,
                                !.formatted_prompt =
                                    Format(prompt_template.parts, context, q)]]
    /\ UNCHANGED <<globals, faiss_index, main_pc, tool>>

\* Lines 190-197: llm.invoke raises.
ChatGenerateFails_mut(r, out) ==
    /\ req[r].pc = "generate"
    /\ out.kind = "raise"
    /\ req' = [req EXCEPT ![r] =
                  Return([req[r] EXCEPT !.llm_calls = @ + 1, !.exc = out.v],
                         "generation", LLMFailedResponse(out.v))]
    /\ llm' = None
    /\ UNCHANGED <<retriever, format_docs, QA_PROMPT_BN, QA_PROMPT_EN, faiss_index, main_pc, tool>>

ChatGenerateFails(r, out) ==
    /\ req[r].pc = "generate"
    /\ out.kind = "raise"
    /\ req' = [req EXCEPT ![r] =
                  Return([req[r] EXCEPT !.llm_calls = @ + 1, !.exc = out.v],
                         "generation", LLMFailedResponse(out.v))]
    /\ UNCHANGED <<globals, faiss_index, main_pc, tool>>

\* Lines 190-200: llm.invoke returns; .content or str(ai_response) is sent.
ChatGenerateOk(r, out) ==
    /\ req[r].pc = "generate"
    /\ out.kind # "raise"
    /\ req' = [req EXCEPT ![r] =
                  Return([req[r] EXCEPT !.llm_calls = @ + 1],
                         "answered", AnswerResponse(out.v))]
    /\ UNCHANGED <<globals, faiss_index, main_pc, tool>>

Next ==
    \/ LoadEmbeddingsRaises
    \/ LoadIndexFails
    \/ LoadLLMConstructorFails
    \/ LoadProbeFails
    \/ LoadSucceeds
    \/ \E r \in Requests : ChatNotReady(r)
    \/ \E r \in Requests : \E b \in Bodies : \E e \in BodyExceptions(b) : ChatBadBody(r, b, e)
    \/ \E r \in Requests : \E b \in Bodies : ChatNoMessage(r, b)
    \/ \E r \in Requests : \E b \in Bodies : \E s \in DetectOutcomes \cup {"skipped"} :
           ChatDetect(r, b, s)
    \/ \E r \in Requests : ChatRetrieveFails(r)
    \/ \E r \in Requests : ChatRetrieveOk(r)
    \/ \E r \in Requests : \E o \in LLMOutcomes : ChatGenerateFails(r, o)
    \/ \E r \in Requests : \E o \in LLMOutcomes : ChatGenerateOk(r, o)

Spec == Init /\ [][Next]_vars

\* =============================================================== claims
Done(r) == req[r].pc = "done"

\* The request got past the detection block (lines 151-162).
Routed(r) == req[r].lang_step # ""

\* The request got past retrieval and prompt assembly (lines 166-187).
Prompted(r) == req[r].pc = "generate" \/ req[r].llm_calls > 0

\* The message of the body is absent or empty.
MessageAbsent(body) ==
    \/ body.kind \in {"nojson", "null", "array"}
    \/ body.kind = "object" /\ ~body.has
    \/ body.kind = "object" /\ body.has /\ body.message.type = "null"
    \/ body.kind = "object" /\ body.has /\ body.message = JStr(<<>>)

\* Number of characters left once leading and trailing blanks are dropped.
TrimmedLen(s) ==
    Cardinality({ i \in 1..Len(s) :
                    /\ \E j \in 1..i : ~IsSpace(s[j])
                    /\ \E k \in i..Len(s) : ~IsSpace(s[k]) })

Contains(text, x) == \E i \in 1..Len(text) : text[i] = x

\* C1 (as claimed): in a service whose startup succeeded, every request whose
\* message is absent or empty (key missing, null, "", or no JSON object at all)
\* ends with status 400, and neither retriever nor backend is invoked for it.
C1_AbsentMessageIsClientError ==
    \A r \in Requests :
        (Done(r) /\ req[r].entry = "ready" /\ MessageAbsent(req[r].body))
            => /\ req[r].response.status = 400
               /\ req[r].response.key = "error"
               /\ req[r].retriever_calls = 0
               /\ req[r].llm_calls = 0

\* Status classes named by the specification.
StatusClass(status) ==
    IF status \in 400..499 THEN "client-error"
    ELSE IF status = 503 THEN "service-unavailable"
    ELSE IF status \in 500..599 THEN "internal-error"
    ELSE "success"

C3_FailedStartupIsTerminal ==
    /\ [](main_pc = "failed" =>
            /\ \E g \in {llm, retriever, format_docs, QA_PROMPT_BN, QA_PROMPT_EN} :
                   g = None
            /\ \A r \in Requests :
                   req[r].entry = "failed" =>
                       /\ Ended(r, "not_ready")
                       /\ req[r].response = NotLoadedResponse
                       /\ req[r].retriever_calls = 0
                       /\ req[r].llm_calls = 0)
    /\ [][main_pc = "failed" => (main_pc' = "failed" /\ UNCHANGED globals)]_vars

C3_Witness ==
    /\ main_pc = "failed"
    /\ Truthy(retriever) /\ Truthy(format_docs) /\ Truthy(llm)
    /\ \A r \in Requests : Ended(r, "not_ready") /\ req[r].entry = "failed"

\* C4: a request whose index search raised ends with the error "Failed to
\* retrieve relevant context.", the backend was not invoked for it, the service
\* is still Ready, and a request arriving afterwards passes the readiness check
\* and, when answered, went through one retrieval and one generation.
C4_RetrievalFailureIsPerRequest ==
    /\ \A r \in Requests :
           Ended(r, "retrieval") =>
               /\ req[r].response.key = "error"
               /\ req[r].response.text = <<"Failed to retrieve relevant context.">>
               /\ req[r].retriever_calls = 1
               /\ req[r].llm_calls = 0
               /\ AllLoaded /\ main_pc = "ready"
    /\ \A r \in Requests :
           req[r].after_retrieval_failure =>
               /\ req[r].exit # "not_ready"
               /\ (Done(r) /\ ~Falsy(GetMessage(req[r].body)) /\ req[r].body.kind = "object")
                      => req[r].retriever_calls = 1
               /\ Ended(r, "answered")
                      => req[r].retriever_calls = 1 /\ req[r].llm_calls = 1

C4_Witness ==
    /\ Ended(1, "retrieval")
    /\ req[2].after_retrieval_failure
    /\ Ended(2, "answered")
    /\ req[2].retriever_calls = 1 /\ req[2].llm_calls = 1

\* C5: a request whose backend call raised invoked the backend exactly once,
\* its error text includes the detail of the exception raised, and the service
\* stays Ready: a later request passes the readiness check.
C5_GenerationFailureIsPerRequest ==
    /\ \A r \in Requests :
           Ended(r, "generation") =>
               /\ req[r].llm_calls = 1
               /\ req[r].exc \in LLMErrors
               /\ req[r].response.key = "error"
               /\ Contains(req[r].response.text, req[r].exc)
               /\ AllLoaded /\ main_pc = "ready"
    /\ \A r \in Requests :
           req[r].after_generation_failure => req[r].exit # "not_ready"

C5_Witness ==
    /\ Ended(1, "generation") /\ req[1].exc = "timeout"
    /\ req[2].after_generation_failure /\ Ended(2, "answered")

\* C6: every finished request has exactly one result, {"response": text} or
\* {"error": description}, whatever the body and whichever step failed; an
\* unfinished request has none.
C6_NoFaultEscapes ==
    \A r \in Requests :
        /\ Done(r) =>
               /\ req[r].response.key \in {"response", "error"}
               /\ req[r].response.text # <<>>
               /\ req[r].response.status \in {200, 400, 500}
               /\ (req[r].response.key = "response") <=> (req[r].exit = "answered")
        /\ ~Done(r) => req[r].response = NoResponse

C6_Witness ==
    /\ Ended(1, "catch_all") /\ req[1].body.kind = "array"
    /\ req[1].response.key = "error"
    /\ Ended(2, "generation")

\* C7: the language is Bengali whenever detection is skipped or fails: for a
\* message of trimmed length at most 10 the detector is not called, whatever
\* the content; when detection raises (LangDetectException or anything else)
\* the request still goes on to retrieval instead of ending with an error.
C7_BengaliWhenSkippedOrFailed ==
    \A r \in Requests :
        Routed(r) =>
            /\ (req[r].user_message.type = "str"
                  /\ TrimmedLen(req[r].user_message.chars) <= 10)
                   => /\ req[r].detect_calls = 0
                      /\ req[r].lang_step = "skipped"
                      /\ req[r].detected_lang = "bn"
            /\ req[r].lang_step \in {"LangDetectException", "Exception"}
                   => /\ req[r].detected_lang = "bn"
                      /\ req[r].pc = "retrieve" \/ req[r].retriever_calls = 1
                      /\ req[r].exit \notin {"not_ready", "no_message", "catch_all"}

C7_Witness ==
    /\ req[1].user_message.type = "str"
    /\ Len(req[1].user_message.chars) > 10
    /\ TrimmedLen(req[1].user_message.chars) = 10
    /\ req[1].detected_lang = "bn" /\ req[1].retriever_calls = 1
    /\ req[2].lang_step = "LangDetectException"
    /\ req[2].detect_calls = 1
    /\ req[2].detected_lang = "bn" /\ req[2].retriever_calls = 1

\* C8: when detection succeeded on a message of trimmed length above 10, the
\* prompt is the Bengali template filled in iff the detected code is "bn", and
\* the English template filled in for every other code; every prompt sent to
\* the backend is exactly one of the two templates filled in.
C8_BinaryCollapse ==
    \A r \in Requests :
        Prompted(r) =>
            LET q  == StrOf(req[r].user_message)
                bn == Format(template_bn, req[r].context_text, q)
                en == Format(template_en, req[r].context_text, q)
            IN  /\ bn # en
                /\ req[r].formatted_prompt \in {bn, en}
                /\ req[r].lang_step \in LangCodes
                       => /\ TrimmedLen(req[r].user_message.chars) > 10
                          /\ (req[r].formatted_prompt = bn) <=> (req[r].lang_step = "bn")
                          /\ (req[r].formatted_prompt = en) <=> (req[r].lang_step # "bn")

C8_Witness ==
    /\ Ended(1, "answered") /\ req[1].lang_step = "fr"
    /\ req[1].formatted_prompt =
           Format(template_en, req[1].context_text, StrOf(req[1].user_message))
    /\ Ended(2, "answered") /\ req[2].lang_step = "bn"
    /\ req[2].formatted_prompt =
           Format(template_bn, req[2].context_text, StrOf(req[2].user_message))

\* Where chunk i of docs starts in the blob: after the chunks before it and
\* one two-character separator for each of them.
RECURSIVE Offset(_, _)
Offset(docs, i) ==
    IF i = 1 THEN 0
    ELSE Offset(docs, i - 1) + Len(page_content(docs[i - 1])) + 2

\* C9: the context blob is the texts of the retrieved chunks, all and only
\* them, in retrieval order, with exactly "\n\n" between consecutive chunks and
\* nothing before the first or after the last; at most k = 4 chunks; an empty
\* retrieval gives the empty string.
C9_ContextBlob ==
    \A r \in Requests :
        Prompted(r) =>
            LET docs == req[r].retrieved_docs
                ctx  == req[r].context_text
                n    == Len(docs)
            IN  /\ n <= 4
                /\ n = 0 => ctx = <<>>
                /\ n > 0 => Len(ctx) = Offset(docs, n) + Len(page_content(docs[n]))
                /\ \A i \in 1..n :
                       SubSeq(ctx, Offset(docs, i) + 1,
                              Offset(docs, i) + Len(page_content(docs[i])))
                           = page_content(docs[i])
                /\ \A i \in 1..(n - 1) :
                       LET e == Offset(docs, i) + Len(page_content(docs[i]))
                       IN  ctx[e + 1] = "\n" /\ ctx[e + 2] = "\n"

C9_Witness ==
    /\ req[1].pc = "generate" /\ Len(req[1].retrieved_docs) = 4
    /\ faiss_index > 4
    /\ Len(req[1].context_text) > 6

\* C10: once load_rag_components has returned, no step of any request assigns
\* a shared component; a step changes the locals of one request only; and two
\* requests with the same message and the same detection outcome have the same
\* language, context and prompt, however their steps interleave.
C10_RequestsDoNotInterfere ==
    /\ [][main_pc # "start" => UNCHANGED <<globals, faiss_index>>]_vars
    /\ [][\A r1, r2 \in Requests :
              (req[r1]' # req[r1] /\ req[r2]' # req[r2]) => r1 = r2]_vars
    /\ [](\A r1, r2 \in Requests :
              (/\ Prompted(r1) /\ Prompted(r2)
               /\ req[r1].user_message = req[r2].user_message
               /\ req[r1].lang_step = req[r2].lang_step)
                  => /\ req[r1].detected_lang = req[r2].detected_lang
                     /\ req[r1].context_text = req[r2].context_text
                     /\ req[r1].formatted_prompt = req[r2].formatted_prompt)

C10_Witness ==
    /\ req[1].pc = "generate" /\ req[2].pc = "generate"
    /\ req[1].user_message = req[2].user_message
    /\ req[1].lang_step = req[2].lang_step
    /\ req[1].lang_step = "en"
    /\ req[1].formatted_prompt = req[2].formatted_prompt
    /\ AllLoaded

\* ======================================= extra/QAgenerator.py (the tool)
MaxActs     == 2   \* most acts in a dataset file
MaxSections == 1   \* most sections of an act

service == <<llm, retriever, format_docs, QA_PROMPT_BN, QA_PROMPT_EN,
             faiss_index, main_pc, req>>

\* An act of the dataset: how many sections it has, and which of the fields
\* the statistics read is null in it (at most one, "none" for a clean act).
BadFields ==
    {"none", "act_title", "act_year", "government_context", "legal_system_context"}
Acts == [sections : 0..MaxSections, bad : BadFields]

ActLists == UNION { [1..n -> Acts] : n \in 0..MaxActs }

\* The input file: absent, not JSON, JSON that is no object, or an object
\* whose 'acts' list is acts.
Datasets ==
    { [kind |-> k, acts |-> <<>>] : k \in {"missing", "invalid", "array"} }
    \cup { [kind |-> "ok", acts |-> a] : a \in ActLists }

\* load_data, lines 16-30, run on the object state st = [data, acts]: what it
\* returns ("True", "False", or "raise" when self.data.get fails on a list) and
\* the fields it leaves.
load_data(st) ==
    CASE dataset.kind \in {"missing", "invalid"} ->
             [ret |-> "False", data |-> st.data, acts |-> st.acts]
      [] dataset.kind = "array" ->
             [ret |-> "raise", data |-> "loaded", acts |-> st.acts]
      [] OTHER ->
             [ret |-> "True", data |-> "loaded", acts |-> dataset.acts]

\* `if not self.acts: self.load_data()`, the first lines of every method.
EnsureLoaded(st) ==
    IF st.acts = <<>> THEN load_data(st)
    ELSE [ret |-> "True", data |-> st.data, acts |-> st.acts]

HasBad(acts, field) == \E i \in 1..Len(acts) : acts[i].bad = field

\* Whether a statistics method raises on acts (ret: what its own load gave).
\*   quick_summary (247-278) returns early when the load failed, else divides
\*   by len(acts); count_basic_stats (32-52) divides by len(acts);
\*   count_sections_distribution (86-119) takes min() of the counts;
\*   find_extremes (121-159) slices act_title; count_by_year (54-84) formats
\*   act_year; count_by_government (161-185) and count_by_legal_period
\*   (187-212) call .get on the context objects.
StepRaises(step, acts, ret) ==
    CASE step = "quick_summary"               -> ret = "True" /\ acts = <<>>
      [] step = "count_basic_stats"           -> acts = <<>>
      [] step = "count_sections_distribution" -> acts = <<>>
      [] step = "find_extremes"               -> HasBad(acts, "act_title")
      [] step = "count_by_year"               -> HasBad(acts, "act_year")
      [] step = "count_by_government"         -> HasBad(acts, "government_context")
      [] OTHER                                -> HasBad(acts, "legal_system_context")

\* The methods run one after the other on st = [data, acts, raised], stopping at
\* the first exception.
RECURSIVE RunSteps(_, _)
RunSteps(steps, st) ==
    IF steps = <<>> \/ st.raised THEN st
    ELSE LET l == EnsureLoaded(st)
         IN  IF l.ret = "raise" \/ StepRaises(Head(steps), l.acts, l.ret)
             THEN [data |-> l.data, acts |-> l.acts, raised |-> TRUE]
             ELSE RunSteps(Tail(steps),
                           [data |-> l.data, acts |-> l.acts, raised |-> FALSE])

Self == [data |-> self_data, acts |-> self_acts, raised |-> FALSE]

\* Lines 233-238: the methods generate_full_report calls, in order.
ReportSteps ==
    <<"count_basic_stats", "count_sections_distribution", "find_extremes",
      "count_by_year", "count_by_government", "count_by_legal_period">>

\* Lines 335-361: the methods each menu choice calls.
ChoiceSteps(choice) ==
    CASE choice = "1" -> <<"quick_summary">>
      [] choice = "2" -> <<"count_basic_stats">>
      [] choice = "3" -> <<"count_sections_distribution">>
      [] choice = "4" -> <<"count_by_year">>
      [] choice = "5" -> <<"count_by_government">>
      [] choice = "6" -> <<"count_by_legal_period">>
      [] choice = "7" -> <<"find_extremes">>
      [] OTHER        -> <<"quick_summary">> \o ReportSteps

StatsChoices == {"1", "2", "3", "4", "5", "6", "7", "9"}

Called(method, outcome) ==
    [method |-> method, outcome |-> outcome, stdout_before |-> sys_stdout]

\* Lines 332-334: choice '0'.
MenuExit ==
    /\ menu_pc = "menu"
    /\ menu_pc' = "exited"
    /\ UNCHANGED <<service, dataset, self_data, self_acts, sys_stdout, report_file,
                   last_call>>

\* Lines 335-348, 354-361: a statistics choice; main() catches nothing, so an
\* exception of a method ends the process.
MenuStats(choice) ==
    /\ menu_pc = "menu"
    /\ LET st == RunSteps(ChoiceSteps(choice), Self)
       IN  /\ self_data' = st.data
           /\ self_acts' = st.acts
           /\ menu_pc' = IF st.raised THEN "crashed" ELSE "menu"
           /\ last_call' = Called(choice, IF st.raised THEN "raised" ELSE "returned")
    /\ UNCHANGED <<service, dataset, sys_stdout, report_file>>

\* generate_full_report, lines 216-218: the dataset does not load; return.
ReportLoadFails ==
    /\ menu_pc = "menu"
    /\ EnsureLoaded(Self).ret = "False"
    /\ last_call' = Called("generate_full_report", "load_failed")
    /\ UNCHANGED <<service, dataset, self_data, self_acts, sys_stdout, report_file,
                   menu_pc>>

\* Lines 216-217: load_data itself raises, before stdout is touched.
ReportLoadRaises ==
    /\ menu_pc = "menu"
    /\ EnsureLoaded(Self).ret = "raise"
    /\ self_data' = EnsureLoaded(Self).data
    /\ menu_pc' = "crashed"
    /\ last_call' = Called("generate_full_report", "load_raised")
    /\ UNCHANGED <<service, dataset, self_acts, sys_stdout, report_file>>

\* Line 224: open(output_file, 'w') raises (a path that cannot be written);
\* sys.stdout has been read at line 222 but not yet assigned.
ReportOpenRaises ==
    /\ menu_pc = "menu"
    /\ EnsureLoaded(Self).ret = "True"
    /\ self_data' = EnsureLoaded(Self).data
    /\ self_acts' = EnsureLoaded(Self).acts
    /\ menu_pc' = "crashed"
    /\ last_call' = Called("generate_full_report", "open_raised")
    /\ UNCHANGED <<service, dataset, sys_stdout, report_file>>

\* Lines 222-238: sys.stdout = f, then one of the methods raises.  The with
\* block closes f on the way out; line 244 is not reached.
ReportStepRaises ==
    /\ menu_pc = "menu"
    /\ EnsureLoaded(Self).ret = "True"
    /\ LET l  == EnsureLoaded(Self)
           st == RunSteps(ReportSteps, [data |-> l.data, acts |-> l.acts, raised |-> FALSE])
       IN  /\ st.raised
           /\ self_data' = st.data
           /\ self_acts' = st.acts
    /\ sys_stdout' = "report_file"
    /\ report_file' = "closed"
    /\ menu_pc' = "crashed"
    /\ last_call' = Called("generate_full_report", "step_raised")
    /\ UNCHANGED <<service, dataset>>

\* Lines 222-245: every method returns; the with block closes f and line 244
\* puts original_stdout back.
ReportWritten ==
    /\ menu_pc = "menu"
    /\ EnsureLoaded(Self).ret = "True"
    /\ LET l  == EnsureLoaded(Self)
           st == RunSteps(ReportSteps, [data |-> l.data, acts |-> l.acts, raised |-> FALSE])
           original_stdout == sys_stdout
       IN  /\ ~st.raised
           /\ self_data' = st.data
           /\ self_acts' = st.acts
           /\ sys_stdout' = original_stdout
    /\ report_file' = "closed"
    /\ last_call' = Called("generate_full_report", "written")
    /\ UNCHANGED <<service, dataset, menu_pc>>

\* The tool started on some input file; the chat service is not part of it.
InitReport ==
    /\ llm = None /\ retriever = None /\ format_docs = None
    /\ QA_PROMPT_BN = None /\ QA_PROMPT_EN = None
    /\ faiss_index = 0
    /\ main_pc = "start"
    /\ req = [r \in Requests |-> Idle]
    /\ \E ds \in Datasets : ToolStart(ds)

NextReport ==
    \/ MenuExit
    \/ \E c \in StatsChoices : MenuStats(c)
    \/ ReportLoadFails
    \/ ReportLoadRaises
    \/ ReportOpenRaises
    \/ ReportStepRaises
    \/ ReportWritten

SpecReport == InitReport /\ [][NextReport]_vars

\* C11 (as claimed): after any call of generate_full_report, whether the
\* dataset failed to load, the report was written, or a statistics step raised,
\* sys.stdout is the stream it was before the call.
C11_ReportRestoresStdout ==
    last_call.method = "generate_full_report"
        => sys_stdout = last_call.stdout_before

====
